---------------------------- MODULE Spec2Model ----------------------------
(***************************************************************************)
(* Model of the MoHRE employee-list converter (src/app.py, src/convert.py).*)
(*                                                                         *)
(* Text is a sequence of Unicode code points (naturals).  A cell is text,  *)
(* or None (a null cell of the extracted table), or one of the typed       *)
(* values the last stage of a pipeline produces.  No code point is         *)
(* negative, so the non-text cells are tuples that start with a negative   *)
(* tag.  The frame library is modelled with the object-dtype semantics of  *)
(* pandas 2.x: str(None) is "None", a missing value in an object column is *)
(* None or pd.NA.                                                          *)
(***************************************************************************)
EXTENDS Integers, Sequences, FiniteSets, TLC

VARIABLES
    san,        \* SpecClean: <<x, clean_cell(x), clean_cell(clean_cell(x))>> as far as computed
    profile,    \* "em" (app.py, Emirati), "ne" (app.py, all employees), "cli" (convert.py)
    pc,         \* position of the pipeline run
    doc,        \* the rows of every table of every page, in page/table/row order
    rows,       \* rows_all: what extract_rows / extract_tables returned
    header,     \* the raw header row (<<>> when none was found)
    body,       \* the body rows after the header split
    columns,    \* df.columns
    table,      \* the rows of df
    err         \* the exception that ended the run ("" when none)

vars == <<san, profile, pc, doc, rows, header, body, columns, table, err>>

-----------------------------------------------------------------------------
(* Bounds of the model *)

MaxTextLen == 3
MaxRows == 2
MaxHeaderLen == 10

-----------------------------------------------------------------------------
(* Cells that are not text *)

None == << -1 >>
NA == << -2 >>
IntCell(n) == << -3, n >>
FloatCell(s) == << -4 >> \o s

IsNull(c) == c = None \/ c = NA
IsText(c) == Len(c) = 0 \/ c[1] >= 0

-----------------------------------------------------------------------------
(* Character classes *)

Range(s) == {s[i] : i \in DOMAIN s}

IsUpper(c) == c \in 65..90
IsLower(c) == c \in 97..122 \/ c = 233
IsAlpha(c) == IsUpper(c) \/ IsLower(c) \/ c = 201
IsDigit(c) == c \in 48..57
\* str.isspace / \s of a str pattern
IsSpace(c) == c \in 9..13 \/ c \in 28..32 \/ c = 133 \/ c = 160
\* \w of a str pattern: alphanumerics (Arabic letters and digits too) and "_"
IsWord(c) ==
    \/ IsAlpha(c) \/ IsDigit(c) \/ c = 95
    \/ c \in 1568..1610 \/ c \in 1632..1641 \/ c \in 1646..1747

ToLower(c) == IF IsUpper(c) THEN c + 32 ELSE IF c = 201 THEN 233 ELSE c
ToUpper(c) == IF c \in 97..122 THEN c - 32 ELSE IF c = 233 THEN 201 ELSE c

-----------------------------------------------------------------------------
(* str methods *)

lower(s) == [i \in DOMAIN s |-> ToLower(s[i])]

RECURSIVE lstrip(_)
lstrip(s) == IF s # <<>> /\ IsSpace(Head(s)) THEN lstrip(Tail(s)) ELSE s

RECURSIVE rstrip(_)
rstrip(s) ==
    IF s # <<>> /\ IsSpace(s[Len(s)]) THEN rstrip(SubSeq(s, 1, Len(s) - 1)) ELSE s

strip(s) == rstrip(lstrip(s))

StartsWithAt(s, i, p) ==
    /\ i + Len(p) - 1 <= Len(s)
    /\ \A j \in DOMAIN p : s[i + j - 1] = p[j]

\* p in s
Contains(s, p) == \E i \in 1..(Len(s) + 1) : StartsWithAt(s, i, p)

\* s.replace(old, new): the occurrences left to right, not overlapping
RECURSIVE replace(_, _, _)
replace(s, old, new) ==
    IF s = <<>> THEN <<>>
    ELSE IF StartsWithAt(s, 1, old)
         THEN new \o replace(SubSeq(s, Len(old) + 1, Len(s)), old, new)
         ELSE <<Head(s)>> \o replace(Tail(s), old, new)

\* s.isdigit()
isdigit(s) == s # <<>> /\ \A i \in DOMAIN s : IsDigit(s[i])

\* s.title(): a cased letter is upper after an uncased character, lower after a cased one
title(s) ==
    [i \in DOMAIN s |->
        IF i > 1 /\ IsAlpha(s[i - 1]) THEN ToLower(s[i]) ELSE ToUpper(s[i])]

RECURSIVE join(_, _)
join(sep, parts) ==
    IF parts = <<>> THEN <<>>
    ELSE IF Len(parts) = 1 THEN parts[1]
    ELSE parts[1] \o sep \o join(sep, Tail(parts))

\* str(x) of a cell
str(c) == IF c = None THEN <<78, 111, 110, 101>> ELSE IF c = NA THEN <<60, 78, 65, 62>> ELSE c

\* str(c or "")
StrOrEmpty(c) == IF IsNull(c) THEN <<>> ELSE c

-----------------------------------------------------------------------------
(* unicodedata.normalize("NFKC", s), on the code points of the model:       *)
(* U+00E9/U+00C9 = e/E + U+0301, U+00A0 -> space, U+FB01 -> "fi",           *)
(* U+FF11 -> "1", U+FE8F -> U+0628.  U+0301 is the only combining mark, so  *)
(* canonical reordering has nothing to do, and a mark composes with the     *)
(* character before it exactly when that character is a bare e or E.        *)

Decompose(c) ==
    CASE c = 233 -> <<101, 769>>
      [] c = 201 -> <<69, 769>>
      [] c = 160 -> <<32>>
      [] c = 64257 -> <<102, 105>>
      [] c = 65297 -> <<49>>
      [] c = 65167 -> <<1576>>
      [] OTHER -> <<c>>

RECURSIVE DecomposeAll(_)
DecomposeAll(s) ==
    IF s = <<>> THEN <<>> ELSE Decompose(Head(s)) \o DecomposeAll(Tail(s))

RECURSIVE ComposeFrom(_, _)
ComposeFrom(done, rest) ==
    IF rest = <<>> THEN done
    ELSE LET c == Head(rest)
             n == Len(done)
         IN  IF c = 769 /\ n > 0 /\ done[n] \in {101, 69}
             THEN ComposeFrom(SubSeq(done, 1, n - 1) \o <<IF done[n] = 101 THEN 233 ELSE 201>>,
                              Tail(rest))
             ELSE ComposeFrom(Append(done, c), Tail(rest))

NFKC(s) == ComposeFrom(<<>>, DecomposeAll(s))

-----------------------------------------------------------------------------
(* clean_cell *)

\* ARABIC_RE
IsArabic(c) ==
    \/ c \in 1536..1791 \/ c \in 1872..1919 \/ c \in 2208..2303
    \/ c \in 64336..65023 \/ c \in 65136..65279
\* ZERO_WIDTH_RE
IsZeroWidth(c) == c \in 8203..8205 \/ c = 8288 \/ c = 65279
\* ILLEGAL_XLSX_RE
IsIllegalXlsx(c) == c \in 0..8 \/ c \in 11..12 \/ c \in 14..31

NotZeroWidth(c) == ~IsZeroWidth(c)
NotArabic(c) == ~IsArabic(c)
NotIllegalXlsx(c) == ~IsIllegalXlsx(c)

\* re.sub(r"\s+", " ", s)
RECURSIVE CollapseSpace(_)
CollapseSpace(s) ==
    IF s = <<>> THEN <<>>
    ELSE IF IsSpace(Head(s)) THEN <<32>> \o CollapseSpace(lstrip(s))
    ELSE <<Head(s)>> \o CollapseSpace(Tail(s))

clean_cell(val) ==
    IF IsNull(val) THEN val
    ELSE LET s1 == NFKC(str(val))
             s2 == SelectSeq(s1, NotZeroWidth)
             s3 == SelectSeq(s2, NotArabic)
             s4 == SelectSeq(s3, NotIllegalXlsx)
         IN  strip(CollapseSpace(s4))

normalize_row(row) == [i \in DOMAIN row |-> clean_cell(row[i])]

-----------------------------------------------------------------------------
(* Column names *)

RowNo == <<82, 111, 119, 32, 78, 111>>    \* "Row No"
PersonCode == <<80, 101, 114, 115, 111, 110, 32, 67, 111, 100, 101>>    \* "Person Code"
PersonName == <<80, 101, 114, 115, 111, 110, 32, 78, 97, 109, 101>>    \* "Person Name"
CardNumber == <<67, 97, 114, 100, 32, 78, 117, 109, 98, 101, 114>>    \* "Card Number"
CardIssueDate == <<67, 97, 114, 100, 32, 73, 115, 115, 117, 101, 32, 68, 97, 116, 101>>    \* "Card Issue Date"
CardExpiryDate == <<67, 97, 114, 100, 32, 69, 120, 112, 105, 114, 121, 32, 68, 97, 116, 101>>    \* "Card Expiry Date"
JobType == <<74, 111, 98, 32, 84, 121, 112, 101>>    \* "Job Type"
Sex == <<83, 101, 120>>    \* "Sex"
TotalSalary == <<84, 111, 116, 97, 108, 32, 83, 97, 108, 97, 114, 121>>    \* "Total Salary"
PassportNumber == <<80, 97, 115, 115, 112, 111, 114, 116, 32, 78, 117, 109, 98, 101, 114>>    \* "Passport Number"
CardType == <<67, 97, 114, 100, 32, 84, 121, 112, 101>>    \* "Card Type"
JobName == <<74, 111, 98, 32, 78, 97, 109, 101>>    \* "Job Name"
Nationality == <<78, 97, 116, 105, 111, 110, 97, 108, 105, 116, 121>>    \* "Nationality"
ContractType == <<67, 111, 110, 116, 114, 97, 99, 116, 32, 84, 121, 112, 101>>    \* "Contract Type"
PersonNumber == <<80, 101, 114, 115, 111, 110, 32, 78, 117, 109, 98, 101, 114>>    \* "Person Number"

EM_EXPECTED ==
    <<RowNo, PersonCode, PersonName, CardNumber, CardIssueDate, CardExpiryDate, JobType, Sex, TotalSalary>>

NE_EXPECTED ==
    <<PassportNumber, PersonName, CardType, JobName, Nationality, CardNumber, ContractType>>

EXPECTED_COLS ==
    <<RowNo, PersonCode, PersonName, CardNumber, CardIssueDate, CardExpiryDate, JobType, Sex, TotalSalary>>

em_aliases ==
    {<<<<114, 111, 119, 32, 110, 111>>, RowNo>>,    \* "row no"
     <<<<114, 111, 119>>, RowNo>>,    \* "row"
     <<<<112, 101, 114, 115, 111, 110, 32, 99, 111, 100, 101>>, PersonCode>>,    \* "person code"
     <<<<112, 101, 114, 115, 111, 110, 32, 105, 100>>, PersonCode>>,    \* "person id"
     <<<<112, 101, 114, 115, 111, 110, 32, 110, 97, 109, 101>>, PersonName>>,    \* "person name"
     <<<<110, 97, 109, 101>>, PersonName>>,    \* "name"
     <<<<99, 97, 114, 100, 32, 110, 117, 109, 98, 101, 114>>, CardNumber>>,    \* "card number"
     <<<<99, 97, 114, 100, 32, 105, 115, 115, 117, 101, 32, 100, 97, 116, 101>>, CardIssueDate>>,    \* "card issue date"
     <<<<105, 115, 115, 117, 101, 32, 100, 97, 116, 101>>, CardIssueDate>>,    \* "issue date"
     <<<<99, 97, 114, 100, 32, 101, 120, 112, 105, 114, 121, 32, 100, 97, 116, 101>>, CardExpiryDate>>,    \* "card expiry date"
     <<<<101, 120, 112, 105, 114, 121, 32, 100, 97, 116, 101>>, CardExpiryDate>>,    \* "expiry date"
     <<<<106, 111, 98, 32, 116, 121, 112, 101>>, JobType>>,    \* "job type"
     <<<<106, 111, 98>>, JobType>>,    \* "job"
     <<<<115, 101, 120>>, Sex>>,    \* "sex"
     <<<<103, 101, 110, 100, 101, 114>>, Sex>>,    \* "gender"
     <<<<116, 111, 116, 97, 108, 32, 115, 97, 108, 97, 114, 121>>, TotalSalary>>,    \* "total salary"
     <<<<115, 97, 108, 97, 114, 121>>, TotalSalary>>}    \* "salary"

ne_aliases ==
    {<<<<112, 97, 115, 115, 112, 111, 114, 116, 32, 110, 117, 109, 98, 101, 114>>, PassportNumber>>,    \* "passport number"
     <<<<112, 97, 115, 115, 112, 111, 114, 116, 32, 110, 111>>, PassportNumber>>,    \* "passport no"
     <<<<1585, 1602, 1605, 32, 1580, 1608, 1575, 1586, 32, 1575, 1604, 1587, 1601, 1585>>, PassportNumber>>,    \* "(Arabic) U+0631 U+0642 U+0645 U+0020 U+062C U+0648 U+0627 U+0632 U+0020 U+0627 U+0644 U+0633 U+0641 U+0631"
     <<<<1585, 1602, 1605, 1580, 1608, 1575, 1586, 1575, 1604, 1587, 1601, 1585>>, PassportNumber>>,    \* "(Arabic) U+0631 U+0642 U+0645 U+062C U+0648 U+0627 U+0632 U+0627 U+0644 U+0633 U+0641 U+0631"
     <<<<112, 101, 114, 115, 111, 110, 32, 110, 97, 109, 101>>, PersonName>>,    \* "person name"
     <<<<110, 97, 109, 101>>, PersonName>>,    \* "name"
     <<<<1575, 1587, 1605, 32, 1575, 1604, 1588, 1582, 1589>>, PersonName>>,    \* "(Arabic) U+0627 U+0633 U+0645 U+0020 U+0627 U+0644 U+0634 U+062E U+0635"
     <<<<99, 97, 114, 100, 32, 116, 121, 112, 101>>, CardType>>,    \* "card type"
     <<<<1606, 1608, 1593, 32, 1575, 1604, 1576, 1591, 1575, 1602, 1577>>, CardType>>,    \* "(Arabic) U+0646 U+0648 U+0639 U+0020 U+0627 U+0644 U+0628 U+0637 U+0627 U+0642 U+0629"
     <<<<106, 111, 98, 32, 110, 97, 109, 101>>, JobName>>,    \* "job name"
     <<<<106, 111, 98>>, JobName>>,    \* "job"
     <<<<1575, 1604, 1605, 1607, 1606, 1577>>, JobName>>,    \* "(Arabic) U+0627 U+0644 U+0645 U+0647 U+0646 U+0629"
     <<<<110, 97, 116, 105, 111, 110, 97, 108, 105, 116, 121>>, Nationality>>,    \* "nationality"
     <<<<1575, 1604, 1580, 1606, 1587, 1610, 1577>>, Nationality>>,    \* "(Arabic) U+0627 U+0644 U+062C U+0646 U+0633 U+064A U+0629"
     <<<<99, 97, 114, 100, 32, 110, 117, 109, 98, 101, 114>>, CardNumber>>,    \* "card number"
     <<<<1585, 1602, 1605, 32, 1575, 1604, 1576, 1591, 1575, 1602, 1577>>, CardNumber>>,    \* "(Arabic) U+0631 U+0642 U+0645 U+0020 U+0627 U+0644 U+0628 U+0637 U+0627 U+0642 U+0629"
     <<<<99, 111, 110, 116, 114, 97, 99, 116, 32, 116, 121, 112, 101>>, ContractType>>,    \* "contract type"
     <<<<1606, 1608, 1593, 32, 1575, 1604, 1593, 1602, 1583>>, ContractType>>}    \* "(Arabic) U+0646 U+0648 U+0639 U+0020 U+0627 U+0644 U+0639 U+0642 U+062F"

cli_aliases ==
    {<<<<114, 111, 119, 32, 110, 111>>, RowNo>>,    \* "row no"
     <<<<114, 111, 119>>, RowNo>>,    \* "row"
     <<<<112, 101, 114, 115, 111, 110, 32, 99, 111, 100, 101>>, PersonCode>>,    \* "person code"
     <<<<112, 101, 114, 115, 111, 110, 32, 105, 100>>, PersonCode>>,    \* "person id"
     <<<<112, 101, 114, 115, 111, 110, 32, 110, 97, 109, 101>>, PersonName>>,    \* "person name"
     <<<<110, 97, 109, 101>>, PersonName>>,    \* "name"
     <<<<99, 97, 114, 100, 32, 110, 117, 109, 98, 101, 114>>, CardNumber>>,    \* "card number"
     <<<<99, 97, 114, 100, 32, 105, 115, 115, 117, 101, 32, 100, 97, 116, 101>>, CardIssueDate>>,    \* "card issue date"
     <<<<105, 115, 115, 117, 101, 32, 100, 97, 116, 101>>, CardIssueDate>>,    \* "issue date"
     <<<<99, 97, 114, 100, 32, 101, 120, 112, 105, 114, 121, 32, 100, 97, 116, 101>>, CardExpiryDate>>,    \* "card expiry date"
     <<<<101, 120, 112, 105, 114, 121, 32, 100, 97, 116, 101>>, CardExpiryDate>>,    \* "expiry date"
     <<<<106, 111, 98, 32, 116, 121, 112, 101>>, JobType>>,    \* "job type"
     <<<<106, 111, 98>>, JobType>>,    \* "job"
     <<<<115, 101, 120>>, Sex>>,    \* "sex"
     <<<<103, 101, 110, 100, 101, 114>>, Sex>>,    \* "gender"
     <<<<116, 111, 116, 97, 108, 32, 115, 97, 108, 97, 114, 121>>, TotalSalary>>,    \* "total salary"
     <<<<115, 97, 108, 97, 114, 121>>, TotalSalary>>}    \* "salary"

APP_META_PHRASES ==
    {<<69, 115, 116, 97, 98, 108, 105, 115, 104, 109, 101, 110, 116, 32, 78, 97, 109, 101>>,    \* "Establishment Name"
     <<69, 115, 116, 97, 98, 108, 105, 115, 104, 109, 101, 110, 116, 32, 78, 117, 109, 98, 101, 114>>,    \* "Establishment Number"
     <<65, 100, 100, 114, 101, 115, 115>>,    \* "Address"
     <<67, 97, 116, 101, 103, 111, 114, 121>>,    \* "Category"
     <<83, 99, 97, 110, 32, 81, 82>>,    \* "Scan QR"
     <<80, 114, 105, 110, 116, 105, 110, 103, 32, 68, 97, 116, 101>>,    \* "Printing Date"
     <<1575, 1604, 1605, 1580, 1605, 1608, 1593>>,    \* "(Arabic) U+0627 U+0644 U+0645 U+062C U+0645 U+0648 U+0639"
     <<1575, 1587, 1605, 32, 1575, 1604, 1605, 1606, 1588, 1571, 1577>>,    \* "(Arabic) U+0627 U+0633 U+0645 U+0020 U+0627 U+0644 U+0645 U+0646 U+0634 U+0623 U+0629"
     <<1585, 1602, 1605, 32, 1575, 1604, 1605, 1606, 1588, 1571, 1577>>,    \* "(Arabic) U+0631 U+0642 U+0645 U+0020 U+0627 U+0644 U+0645 U+0646 U+0634 U+0623 U+0629"
     <<1575, 1604, 1593, 1606, 1608, 1575, 1606>>,    \* "(Arabic) U+0627 U+0644 U+0639 U+0646 U+0648 U+0627 U+0646"
     <<1575, 1604, 1601, 1574, 1577>>,    \* "(Arabic) U+0627 U+0644 U+0641 U+0626 U+0629"
     <<1575, 1605, 1587, 1581, 32, 1585, 1605, 1586, 32, 1575, 1604, 1575, 1587, 1578, 1580, 1575, 1576, 1577, 32, 1575, 1604, 1587, 1585, 1610, 1593, 1577>>,    \* "(Arabic) U+0627 U+0645 U+0633 U+062D U+0020 U+0631 U+0645 U+0632 U+0020 U+0627 U+0644 U+0627 U+0633 U+062A U+062C U+0627 U+0628 U+0629 U+0020 U+0627 U+0644 U+0633 U+0631 U+064A U+0639 U+0629"
     <<1578, 1575, 1585, 1610, 1582, 32, 1575, 1604, 1591, 1576, 1575, 1593, 1577>>,    \* "(Arabic) U+062A U+0627 U+0631 U+064A U+062E U+0020 U+0627 U+0644 U+0637 U+0628 U+0627 U+0639 U+0629"
     <<1573, 1580, 1605, 1575, 1604, 1610>>}    \* "(Arabic) U+0625 U+062C U+0645 U+0627 U+0644 U+064A"

CLI_META_PHRASES ==
    {<<69, 115, 116, 97, 98, 108, 105, 115, 104, 109, 101, 110, 116, 32, 78, 97, 109, 101>>,    \* "Establishment Name"
     <<69, 115, 116, 97, 98, 108, 105, 115, 104, 109, 101, 110, 116, 32, 78, 117, 109, 98, 101, 114>>,    \* "Establishment Number"
     <<65, 100, 100, 114, 101, 115, 115>>,    \* "Address"
     <<67, 97, 116, 101, 103, 111, 114, 121>>,    \* "Category"
     <<83, 99, 97, 110, 32, 81, 82>>,    \* "Scan QR"
     <<80, 114, 105, 110, 116, 105, 110, 103, 32, 68, 97, 116, 101>>,    \* "Printing Date"
     <<1575, 1604, 1605, 1580, 1605, 1608, 1593>>}    \* "(Arabic) U+0627 U+0644 U+0645 U+062C U+0645 U+0648 U+0639"

W_rowno == <<114, 111, 119, 110, 111>>    \* "rowno"
W_personcode == <<112, 101, 114, 115, 111, 110, 99, 111, 100, 101>>    \* "personcode"
W_passport == <<112, 97, 115, 115, 112, 111, 114, 116>>    \* "passport"
W_personname == <<112, 101, 114, 115, 111, 110, 110, 97, 109, 101>>    \* "personname"
W_Total == <<84, 111, 116, 97, 108>>    \* "Total"
W_QR == <<81, 82>>    \* "QR"
W_Male == <<77, 97, 108, 101>>    \* "Male"
W_Female == <<70, 101, 109, 97, 108, 101>>    \* "Female"
W_Limited == <<76, 105, 109, 105, 116, 101, 100>>    \* "Limited"
W_Unlimited == <<85, 110, 108, 105, 109, 105, 116, 101, 100>>    \* "Unlimited"

-----------------------------------------------------------------------------
(* Header detection *)

\* (str(c or "")).lower().replace(" ", "")
Squash(c) == replace(lower(StrOrEmpty(c)), <<32>>, <<>>)

em_is_header_row(row) ==
    /\ Len(row) >= 2
    /\ Contains(Squash(row[1]), W_rowno)
    /\ Contains(Squash(row[2]), W_personcode)

ne_is_header_row(row) ==
    /\ Len(row) >= 2
    /\ Contains(Squash(row[1]), W_passport)
    /\ Contains(Squash(row[2]), W_personname)

is_header_row(row) ==
    /\ Len(row) >= 2
    /\ Contains(Squash(row[1]), W_rowno)
    /\ Contains(Squash(row[2]), W_personcode)

IsHeaderRow(p, row) ==
    CASE p = "em" -> em_is_header_row(row)
      [] p = "ne" -> ne_is_header_row(row)
      [] OTHER -> is_header_row(row)

-----------------------------------------------------------------------------
(* Header reconciliation *)

Expected(p) ==
    CASE p = "em" -> EM_EXPECTED
      [] p = "ne" -> NE_EXPECTED
      [] OTHER -> EXPECTED_COLS

\* {c.lower(): c for c in expected}
LcMap(expected) == {<<lower(expected[i]), expected[i]>> : i \in DOMAIN expected}

EM_EXPECTED_LC == LcMap(EM_EXPECTED)
NE_EXPECTED_LC == LcMap(NE_EXPECTED)
EXPECTED_COLS_LC_MAP == LcMap(EXPECTED_COLS)

\* d.get(key, default)
Get(d, key, default) ==
    IF \E e \in d : e[1] = key THEN (CHOOSE e \in d : e[1] = key)[2] ELSE default

\* k / keyize: (x or "").lower().strip().replace("  ", " ")
keyize(x) == replace(strip(lower(StrOrEmpty(x))), <<32, 32>>, <<32>>)

\* the first position from which r"\s*/\s*[\u0600-\u06FF]" matches (0: none)
SlashNoiseAt(s) ==
    LET Hit(i) ==
            \E j \in i..Len(s), m \in (i + 1)..Len(s) :
                /\ j < m
                /\ s[j] = 47
                /\ s[m] \in 1536..1791
                /\ \A n \in i..(m - 1) : n # j => IsSpace(s[n])
        hits == {i \in 1..Len(s) : Hit(i)}
    IN  IF hits = {} THEN 0 ELSE CHOOSE i \in hits : \A h \in hits : i <= h

\* the first position from which r"\n+[\u0600-\u06FF]" matches (0: none)
NewlineNoiseAt(s) ==
    LET Hit(i) ==
            \E m \in (i + 1)..Len(s) :
                /\ s[m] \in 1536..1791
                /\ \A n \in i..(m - 1) : s[n] = 10
        hits == {i \in 1..Len(s) : Hit(i)}
    IN  IF hits = {} THEN 0 ELSE CHOOSE i \in hits : \A h \in hits : i <= h

\* both patterns end in ".*$" under DOTALL: a match runs to the end of the label
strip_bilingual_noise(s) ==
    LET a == SlashNoiseAt(s)
        s1 == IF a = 0 THEN s ELSE SubSeq(s, 1, a - 1)
        b == NewlineNoiseAt(s1)
        s2 == IF b = 0 THEN s1 ELSE SubSeq(s1, 1, b - 1)
    IN  strip(s2)

em_resolve(c) ==
    LET cc == clean_cell(c)
        base == keyize(cc)
    IN  Get(EM_EXPECTED_LC, base, Get(em_aliases, base, StrOrEmpty(cc)))

\* re.sub raises TypeError on a label that is None: clean_cell passes None through
ne_resolve_raises(c) == IsNull(clean_cell(c))

ne_resolve(c) ==
    LET cc == strip_bilingual_noise(clean_cell(c))
        base == keyize(cc)
    IN  Get(NE_EXPECTED_LC, base, Get(ne_aliases, base, StrOrEmpty(cc)))

cli_resolve(c) ==
    LET col_clean == clean_cell(c)
        base == keyize(col_clean)
    IN  IF \E e \in EXPECTED_COLS_LC_MAP : e[1] = base
        THEN Get(EXPECTED_COLS_LC_MAP, base, <<>>)
        ELSE Get(cli_aliases, base, StrOrEmpty(col_clean))

\* sum(1 for c in out if c in expected)
CountIn(out, expected) == Cardinality({i \in DOMAIN out : out[i] \in Range(expected)})

Fallback(out, expected) ==
    IF CountIn(out, expected) < 5 /\ Len(out) = Len(expected) THEN expected ELSE out

em_coerce_header(h) ==
    IF h = <<>> THEN EM_EXPECTED
    ELSE Fallback([i \in DOMAIN h |-> em_resolve(h[i])], EM_EXPECTED)

ne_coerce_raises(h) == \E i \in DOMAIN h : ne_resolve_raises(h[i])

ne_coerce_header(h) ==
    IF h = <<>> THEN NE_EXPECTED
    ELSE Fallback([i \in DOMAIN h |-> ne_resolve(h[i])], NE_EXPECTED)

coerce_header(h) ==
    IF h = <<>> THEN EXPECTED_COLS
    ELSE Fallback([i \in DOMAIN h |-> cli_resolve(h[i])], EXPECTED_COLS)

CoerceRaises(p, h) == p = "ne" /\ ne_coerce_raises(h)

Coerce(p, h) ==
    CASE p = "em" -> em_coerce_header(h)
      [] p = "ne" -> ne_coerce_header(h)
      [] OTHER -> coerce_header(h)

-----------------------------------------------------------------------------
(* Extraction, header split, alignment *)

\* any(str(c or "").strip() for c in r)
AnyNonBlank(r) == \E i \in DOMAIN r : strip(StrOrEmpty(r[i])) # <<>>

\* r and any(...): an empty row is falsy
KeepRaw(r) == r # <<>> /\ AnyNonBlank(r)

Map(f(_), s) == [i \in DOMAIN s |-> f(s[i])]

extract_rows(d) == Map(normalize_row, SelectSeq(d, KeepRaw))

extract_tables(d) == Map(normalize_row, SelectSeq(d, KeepRaw))

\* the header: the first row that is_header_row holds of, <<>> when there is none
FirstHeader(p, rs) ==
    LET hs == {i \in DOMAIN rs : IsHeaderRow(p, rs[i])}
    IN  IF hs = {} THEN <<>> ELSE rs[CHOOSE i \in hs : \A j \in hs : i <= j]

\* the body: the rows that are no header and have a non-blank cell
BodyOf(p, rs) ==
    LET Keep(r) == ~IsHeaderRow(p, r) /\ AnyNonBlank(r)
    IN  SelectSeq(rs, Keep)

split_header_and_body(rs) == <<FirstHeader("cli", rs), BodyOf("cli", rs)>>

\* an alignment that pads and never cuts: r + [""] * max(0, n - len(r))
AlignRowPadOnly(r, n) ==
    r \o [i \in 1..(IF n > Len(r) THEN n - Len(r) ELSE 0) |-> <<>>]

\* (r + [""] * max(0, n - len(r)))[:n]
AlignRow(r, n) ==
    SubSeq(r \o [i \in 1..(IF n > Len(r) THEN n - Len(r) ELSE 0) |-> <<>>], 1, n)

align_to_header(b, header_len) ==
    [i \in DOMAIN b |->
        IF Len(b[i]) < header_len
        THEN b[i] \o [j \in 1..(header_len - Len(b[i])) |-> <<>>]
        ELSE IF Len(b[i]) > header_len THEN SubSeq(b[i], 1, header_len)
        ELSE b[i]]

Align(p, b, n) ==
    IF p = "cli" THEN align_to_header(b, n) ELSE [i \in DOMAIN b |-> AlignRow(b[i], n)]

-----------------------------------------------------------------------------
(* Meta rows *)

WordAt(s, i) == i \in DOMAIN s /\ IsWord(s[i])

\* \b between s[i-1] and s[i]
Boundary(s, i) == WordAt(s, i - 1) # WordAt(s, i)

\* the phrases as re.IGNORECASE compares them
APP_META_LOWER == {lower(q) : q \in APP_META_PHRASES}

CLI_META_LOWER == {lower(q) : q \in CLI_META_PHRASES}

\* the ends (the index after the last character) of the matches at i of the
\* pattern's group: a phrase, Total\s*:, QR\b.  ls is the text in lower case and
\* lps the phrases in lower case: the search is made under re.IGNORECASE
GroupEnds(lps, ls, i) ==
    {i + Len(p) : p \in {q \in lps : StartsWithAt(ls, i, q)}}
    \cup (IF StartsWithAt(ls, i, lower(W_Total))
          THEN {e \in (i + 6)..(Len(ls) + 1) :
                  /\ ls[e - 1] = 58
                  /\ \A n \in (i + 5)..(e - 2) : IsSpace(ls[n])}
          ELSE {})
    \cup {e \in {i + 2} : StartsWithAt(ls, i, lower(W_QR)) /\ Boundary(ls, e)}

\* re.search(META_PAT, s, flags=re.IGNORECASE): (?:^|\b)(group)(?:\b|:)
MetaSearch(lps, s) ==
    LET ls == lower(s)
    IN  \E i \in 1..(Len(s) + 1) :
            /\ i = 1 \/ Boundary(ls, i)
            /\ \E e \in GroupEnds(lps, ls, i) :
                  Boundary(ls, e) \/ (e \in DOMAIN ls /\ ls[e] = 58)

NotNull(c) == ~IsNull(c)

\* " | ".join(str(x) for x in row if pd.notna(x))
Joined(row) == join(<<32, 124, 32>>, Map(str, SelectSeq(row, NotNull)))

is_meta_row(row) == MetaSearch(APP_META_LOWER, Joined(row))

cli_is_meta_row(row) == MetaSearch(CLI_META_LOWER, Joined(row))

NotMetaRows(t) == LET NotMeta(r) == ~is_meta_row(r) IN SelectSeq(t, NotMeta)

NotHeaderRows(p, t) == LET NotHeader(r) == ~IsHeaderRow(p, r) IN SelectSeq(t, NotHeader)

drop_meta_headers(p, t) == NotHeaderRows(p, NotMetaRows(t))

-----------------------------------------------------------------------------
(* Frame helpers *)

ColIdx(cols, name) == {i \in DOMAIN cols : cols[i] = name}
HasCol(cols, name) == ColIdx(cols, name) # {}
\* df[name] is a frame, not a series, when the label is there more than once
Duplicated(cols, name) == Cardinality(ColIdx(cols, name)) > 1
TheCol(cols, name) == CHOOSE i \in DOMAIN cols : cols[i] = name

RECURSIVE SortedSeq(_)
SortedSeq(S) ==
    IF S = {} THEN <<>>
    ELSE LET m == CHOOSE x \in S : \A y \in S : x <= y
         IN  <<m>> \o SortedSeq(S \ {m})

RECURSIVE Flatten(_)
Flatten(ss) == IF ss = <<>> THEN <<>> ELSE Head(ss) \o Flatten(Tail(ss))

\* the positions df[labels] selects: per label, every column of that label
SelectLabels(cols, labels) ==
    Flatten([i \in DOMAIN labels |-> SortedSeq(ColIdx(cols, labels[i]))])

\* keep = [c for c in expected if c in df.columns]
KeepCols(expected, cols) ==
    LET Present(c) == HasCol(cols, c)
    IN  SelectSeq(expected, Present)

\* a projection that keeps every column
ProjectPositionsAll(expected, cols) == [i \in DOMAIN cols |-> i]

\* if keep: df = df[keep]
ProjectPositions(expected, cols) ==
    IF KeepCols(expected, cols) = <<>> THEN [i \in DOMAIN cols |-> i]
    ELSE SelectLabels(cols, KeepCols(expected, cols))

TakeCols(pos, r) == [i \in DOMAIN pos |-> r[pos[i]]]

ProjectColumns(expected, cols) == TakeCols(ProjectPositions(expected, cols), cols)

ProjectTable(expected, cols, t) ==
    [i \in DOMAIN t |-> TakeCols(ProjectPositions(expected, cols), t[i])]

\* df.map(clean_cell)
CleanTable(t) == Map(normalize_row, t)

\* a column replaced cell by cell
SetCol(t, j, f(_)) ==
    [i \in DOMAIN t |-> [t[i] EXCEPT ![j] = f(t[i][j])]]

\* astype(str).str.strip()
StrStrip(c) == strip(str(c))

\* df.dropna(how="all"), then the rows whose cells all print as ""
AllNull(r) == \A i \in DOMAIN r : IsNull(r[i])
AllEmptyText(r) == \A i \in DOMAIN r : strip(str(r[i])) = <<>>
DropEmptyRows(t) ==
    LET Keep(r) == ~AllNull(r) /\ ~AllEmptyText(r)
    IN  SelectSeq(t, Keep)

-----------------------------------------------------------------------------
(* Field rules *)

\* "Row No": astype(str).str.strip().str.isdigit()  /  intlike
intlike(c) == isdigit(StrStrip(c))

\* a "Person Code" rule without the length: digits, however many
PersonCodeOkAnyLength(c) == isdigit(StrStrip(c))

\* "Person Code": digits, at least 10 of them
PersonCodeOk(c) == isdigit(StrStrip(c)) /\ Len(StrStrip(c)) >= 10

\* "Sex": astype(str).str.strip().str.title()
TitleCell(c) == title(StrStrip(c))

SexOk(c) == c \in {W_Male, W_Female}

ContractOk(c) == c = <<>> \/ c \in {W_Limited, W_Unlimited}

\* the length of the run of digits that ends s
RECURSIVE TrailingDigits(_)
TrailingDigits(s) ==
    IF s # <<>> /\ IsDigit(s[Len(s)]) THEN 1 + TrailingDigits(SubSeq(s, 1, Len(s) - 1)) ELSE 0

\* the pattern with \d{7,}: a run of 7 digits is taken for a number
NameMatchesSeven(s) ==
    LET core == rstrip(s)
        n == TrailingDigits(core)
    IN  /\ n >= 7
        /\ \A i \in 1..(Len(core) - n) : core[i] # 10

\* r'^(?P<name>.*?)(?P<number>\d{8,})\s*$': the name is as short as it can be, so
\* the number is the whole run of digits before the trailing white space
NameMatches(s) ==
    LET core == rstrip(s)
        n == TrailingDigits(core)
    IN  /\ n >= 8
        /\ \A i \in 1..(Len(core) - n) : core[i] # 10

NameGroup(s) == SubSeq(rstrip(s), 1, Len(rstrip(s)) - TrailingDigits(rstrip(s)))

NumberGroup(s) ==
    SubSeq(rstrip(s), Len(rstrip(s)) - TrailingDigits(rstrip(s)) + 1, Len(rstrip(s)))

\* split["number"].fillna("")
PersonNumberOf(c) == IF IsText(c) /\ NameMatches(c) THEN NumberGroup(c) ELSE <<>>

\* split["name"].fillna(df["Person Name"]).str.strip()
PersonNameOf(c) ==
    IF ~IsText(c) THEN c
    ELSE IF NameMatches(c) THEN strip(NameGroup(c)) ELSE strip(c)

\* the length of the run of digits that starts s
RECURSIVE LeadingDigits(_)
LeadingDigits(s) == IF s # <<>> /\ IsDigit(Head(s)) THEN 1 + LeadingDigits(Tail(s)) ELSE 0

\* str.extract(r"(\d{5,})", expand=False).fillna("")
RECURSIVE FirstDigitRun(_)
FirstDigitRun(s) ==
    IF s = <<>> THEN <<>>
    ELSE LET n == LeadingDigits(s)
         IN  IF n >= 5 THEN SubSeq(s, 1, n)
             ELSE FirstDigitRun(SubSeq(s, n + 2, Len(s)))

CardNumberOf(c) == FirstDigitRun(StrStrip(c))

\* int(s) of a string of digits
RECURSIVE DigitsValue(_)
DigitsValue(s) ==
    IF s = <<>> THEN 0 ELSE 10 * DigitsValue(SubSeq(s, 1, Len(s) - 1)) + (s[Len(s)] - 48)

\* .astype(str).str.strip().replace("", pd.NA)
BlankToNA(c) == IF StrStrip(c) = <<>> THEN NA ELSE StrStrip(c)

\* .astype("Int64")
ToInt64(c) == IF c = NA THEN NA ELSE IntCell(DigitsValue(c))

\* .astype(str).str.replace(",", "", regex=False).str.strip().replace("", pd.NA)
SalaryText(c) ==
    LET t == strip(replace(str(c), <<44>>, <<>>))
    IN  IF t = <<>> THEN NA ELSE t

\* float(s) succeeds: an optional sign, digits with at most one point, a digit at least
ParsesAsFloat(s) ==
    LET u == IF s # <<>> /\ s[1] \in {43, 45} THEN Tail(s) ELSE s
    IN  /\ \E i \in DOMAIN u : IsDigit(u[i])
        /\ \A i \in DOMAIN u : IsDigit(u[i]) \/ u[i] = 46
        /\ Cardinality({i \in DOMAIN u : u[i] = 46}) <= 1

ToFloat(c) == IF c = NA THEN NA ELSE FloatCell(c)

Column(t, j) == [i \in DOMAIN t |-> t[i][j]]

InsertAt(s, j, x) == SubSeq(s, 1, j) \o <<x>> \o SubSeq(s, j + 1, Len(s))

-----------------------------------------------------------------------------
(* Rows of the input documents *)

\* ["Row No", "Person Code", "Sex", "Total Salary"]
EmHeader ==
    <<<<82, 111, 119, 32, 78, 111>>, <<80, 101, 114, 115, 111, 110, 32, 67, 111, 100, 101>>, <<83, 101, 120>>, <<84, 111, 116, 97, 108, 32, 83, 97, 108, 97, 114, 121>>>>

\* ["Row No.", "PersonCode", "Remarks"]
EmHeaderUnknown ==
    <<<<82, 111, 119, 32, 78, 111, 46>>, <<80, 101, 114, 115, 111, 110, 67, 111, 100, 101>>, <<82, 101, 109, 97, 114, 107, 115>>>>

\* ["1", "1234567890", " male ", "1,000.5"]
EmGood ==
    <<<<49>>, <<49, 50, 51, 52, 53, 54, 55, 56, 57, 48>>, <<32, 109, 97, 108, 101, 32>>, <<49, 44, 48, 48, 48, 46, 53>>>>

\* ["2", "1234567890", "Female", "abc"]
EmSalaryText ==
    <<<<50>>, <<49, 50, 51, 52, 53, 54, 55, 56, 57, 48>>, <<70, 101, 109, 97, 108, 101>>, <<97, 98, 99>>>>

\* ["3", "1234567890", "Male", ""]
EmSalaryEmpty ==
    <<<<51>>, <<49, 50, 51, 52, 53, 54, 55, 56, 57, 48>>, <<77, 97, 108, 101>>, <<>>>>

\* ["4", "1234567890", "Male", None]
EmSalaryNull ==
    <<<<52>>, <<49, 50, 51, 52, 53, 54, 55, 56, 57, 48>>, <<77, 97, 108, 101>>, None>>

\* ["5", "12345", "Male", "10"]
EmShortCode ==
    <<<<53>>, <<49, 50, 51, 52, 53>>, <<77, 97, 108, 101>>, <<49, 48>>>>

\* ["6", "1234567890", "Other", "10"]
EmSexOther ==
    <<<<54>>, <<49, 50, 51, 52, 53, 54, 55, 56, 57, 48>>, <<79, 116, 104, 101, 114>>, <<49, 48>>>>

\* ["x", "1234567890", "Male", "10"]
EmRowNoText ==
    <<<<120>>, <<49, 50, 51, 52, 53, 54, 55, 56, 57, 48>>, <<77, 97, 108, 101>>, <<49, 48>>>>

\* ["7", "1234567890", "Male", "ADDRESS"]
EmAddress ==
    <<<<55>>, <<49, 50, 51, 52, 53, 54, 55, 56, 57, 48>>, <<77, 97, 108, 101>>, <<65, 68, 68, 82, 69, 83, 83>>>>

\* ["8", "1234567890"]
EmShortRow ==
    <<<<56>>, <<49, 50, 51, 52, 53, 54, 55, 56, 57, 48>>>>

\* ["9", "1234567890", "Female", "20", "extra"]
EmLongRow ==
    <<<<57>>, <<49, 50, 51, 52, 53, 54, 55, 56, 57, 48>>, <<70, 101, 109, 97, 108, 101>>, <<50, 48>>, <<101, 120, 116, 114, 97>>>>

\* ["Passport Number", "Person Name", "Card Number", "Contract Type", "Ref"]
NeHeader ==
    <<<<80, 97, 115, 115, 112, 111, 114, 116, 32, 78, 117, 109, 98, 101, 114>>, <<80, 101, 114, 115, 111, 110, 32, 78, 97, 109, 101>>, <<67, 97, 114, 100, 32, 78, 117, 109, 98, 101, 114>>, <<67, 111, 110, 116, 114, 97, 99, 116, 32, 84, 121, 112, 101>>, <<82, 101, 102>>>>

\* ["Passport No", "Person Name", "Job", "Job Name"]
NeHeaderJobs ==
    <<<<80, 97, 115, 115, 112, 111, 114, 116, 32, 78, 111>>, <<80, 101, 114, 115, 111, 110, 32, 78, 97, 109, 101>>, <<74, 111, 98>>, <<74, 111, 98, 32, 78, 97, 109, 101>>>>

\* ["Passport", "PersonName", "Ref"]
NeHeaderUnknown ==
    <<<<80, 97, 115, 115, 112, 111, 114, 116>>, <<80, 101, 114, 115, 111, 110, 78, 97, 109, 101>>, <<82, 101, 102>>>>

\* ["Passport", "Person Name", "Passport No"]: the canonical Passport Number is
\* the third column, the first one resolves to no canonical name
NeHeaderShifted ==
    <<<<80, 97, 115, 115, 112, 111, 114, 116>>, <<80, 101, 114, 115, 111, 110, 32, 78, 97, 109, 101>>, <<80, 97, 115, 115, 112, 111, 114, 116, 32, 78, 111>>>>

\* ["No", "Person Name", "Passport Number"]: a row of labels whose first cell
\* does not name the passport
NeLabelsRow ==
    <<<<78, 111>>, <<80, 101, 114, 115, 111, 110, 32, 78, 97, 109, 101>>, <<80, 97, 115, 115, 112, 111, 114, 116, 32, 78, 117, 109, 98, 101, 114>>>>

\* ["Passport Number", "Person Name", None]
NeHeaderNull ==
    <<<<80, 97, 115, 115, 112, 111, 114, 116, 32, 78, 117, 109, 98, 101, 114>>, <<80, 101, 114, 115, 111, 110, 32, 78, 97, 109, 101>>, None>>

\* ["Passport Number", "Person Name", "Name"]
NeHeaderNames ==
    <<<<80, 97, 115, 115, 112, 111, 114, 116, 32, 78, 117, 109, 98, 101, 114>>, <<80, 101, 114, 115, 111, 110, 32, 78, 97, 109, 101>>, <<78, 97, 109, 101>>>>

\* ["P123", "John Smith12345678", "AB12-34567-XYZ", "limited"]
NeGood ==
    <<<<80, 49, 50, 51>>, <<74, 111, 104, 110, 32, 83, 109, 105, 116, 104, 49, 50, 51, 52, 53, 54, 55, 56>>, <<65, 66, 49, 50, 45, 51, 52, 53, 54, 55, 45, 88, 89, 90>>, <<108, 105, 109, 105, 116, 101, 100>>>>

\* ["P124", "John Smith", "123", "Unlimited"]
NeNoNumber ==
    <<<<80, 49, 50, 52>>, <<74, 111, 104, 110, 32, 83, 109, 105, 116, 104>>, <<49, 50, 51>>, <<85, 110, 108, 105, 109, 105, 116, 101, 100>>>>

\* ["", "Jane 123456789", "", ""]
NePassportEmpty ==
    <<<<>>, <<74, 97, 110, 101, 32, 49, 50, 51, 52, 53, 54, 55, 56, 57>>, <<>>, <<>>>>

\* [None, "Ann", "", ""]
NePassportNull ==
    <<None, <<65, 110, 110>>, <<>>, <<>>>>

\* ["P125", "Bob 1234567", "55555", "Other"]
NeContractOther ==
    <<<<80, 49, 50, 53>>, <<66, 111, 98, 32, 49, 50, 51, 52, 53, 54, 55>>, <<53, 53, 53, 53, 53>>, <<79, 116, 104, 101, 114>>>>

\* ["P126", None, "", ""]
NeNameNull ==
    <<<<80, 49, 50, 54>>, None, <<>>, <<>>>>

\* ["P127", "Al"]
NeShortRow ==
    <<<<80, 49, 50, 55>>, <<65, 108>>>>

\* ["P128", "Cy 00000000", "77777", "", "extra", "more"]
NeLongRow ==
    <<<<80, 49, 50, 56>>, <<67, 121, 32, 48, 48, 48, 48, 48, 48, 48, 48>>, <<55, 55, 55, 55, 55>>, <<>>, <<101, 120, 116, 114, 97>>, <<109, 111, 114, 101>>>>

\* ["\u200B", "\u0628\u064A\u0627\u0646\u0627\u062A"]
InvisibleRow ==
    <<<<8203>>, <<1576, 1610, 1575, 1606, 1575, 1578>>>>

\* [None, ""]
NullRow ==
    <<None, <<>>>>

\* ["Printing Date: 01/01/2025"]
PrintingDate ==
    <<<<80, 114, 105, 110, 116, 105, 110, 103, 32, 68, 97, 116, 101, 58, 32, 48, 49, 47, 48, 49, 47, 50, 48, 50, 53>>>>

\* ["Total: 25"]
TotalLine ==
    <<<<84, 111, 116, 97, 108, 58, 32, 50, 53>>>>

\* ["", "", "", "", "note"]
NoteRow ==
    <<<<>>, <<>>, <<>>, <<>>, <<110, 111, 116, 101>>>>

-----------------------------------------------------------------------------
(* The documents of the model: up to MaxRows rows drawn from a pool *)

SharedPool == {InvisibleRow, NullRow, PrintingDate, TotalLine, NoteRow}

EmPool ==
    {EmHeader, EmHeaderUnknown, EmGood, EmSalaryText, EmSalaryEmpty, EmSalaryNull,
     EmShortCode, EmSexOther, EmRowNoText, EmAddress, EmShortRow, EmLongRow}
    \cup SharedPool

NePool ==
    {NeHeader, NeHeaderJobs, NeHeaderUnknown, NeHeaderNull, NeHeaderNames,
     NeHeaderShifted, NeLabelsRow, NeGood, NeNoNumber, NePassportEmpty, NePassportNull, NeContractOther, NeNameNull,
     NeShortRow, NeLongRow}
    \cup SharedPool

\* convert.py types no column, so the rows that differ in the salary add no case
CliPool == EmPool \ {EmSalaryText, EmSalaryEmpty, EmSalaryNull}

Pool(p) == IF p = "ne" THEN NePool ELSE IF p = "cli" THEN CliPool ELSE EmPool

RECURSIVE SeqsUpTo(_, _)
SeqsUpTo(S, n) ==
    IF n = 0 THEN {<<>>}
    ELSE LET shorter == SeqsUpTo(S, n - 1)
         IN  shorter \cup {Append(t, x) : t \in shorter, x \in S}

Profiles == {"em", "ne", "cli"}

Init ==
    /\ san = <<>>
    /\ profile \in Profiles
    /\ pc = "start"
    /\ doc \in SeqsUpTo(Pool(profile), MaxRows)
    /\ rows = <<>> /\ header = <<>> /\ body = <<>>
    /\ columns = <<>> /\ table = <<>> /\ err = ""

-----------------------------------------------------------------------------
(* The stages all three pipelines share *)

Raise(e) == pc' = "failed" /\ err' = e

\* extract_rows / extract_tables, and the caller's "No tables found"
ExtractRows ==
    /\ pc = "start"
    /\ rows' = IF profile = "cli" THEN extract_tables(doc) ELSE extract_rows(doc)
    /\ IF rows' = <<>> THEN Raise("NoTablesFound") ELSE pc' = "extracted" /\ err' = err
    /\ UNCHANGED <<san, profile, doc, header, body, columns, table>>

\* the loop over rows of to_clean_dataframe_* / split_header_and_body
SplitHeaderBody ==
    /\ pc = "extracted"
    /\ header' = FirstHeader(profile, rows)
    /\ body' = BodyOf(profile, rows)
    /\ pc' = "split"
    /\ UNCHANGED <<san, profile, doc, rows, columns, table, err>>

\* header = coerce_header(header or [])
CoerceHeader ==
    /\ pc = "split"
    /\ IF CoerceRaises(profile, header)
       THEN Raise("TypeError") /\ UNCHANGED columns
       ELSE columns' = Coerce(profile, header) /\ pc' = "coerced" /\ err' = err
    /\ UNCHANGED <<san, profile, doc, rows, header, body, table>>

\* body aligned to the header, df = pd.DataFrame(body, columns=header)
AlignBody ==
    /\ pc = "coerced"
    /\ table' = Align(profile, body, Len(columns))
    /\ pc' = "aligned"
    /\ UNCHANGED <<san, profile, doc, rows, header, body, columns, err>>

-----------------------------------------------------------------------------
(* app.py: the stages both frames share *)

App == profile \in {"em", "ne"}

\* df.apply(f, axis=1) of a frame without rows calls f on no row: pandas 2.x
\* returns an empty float Series for it (apply_empty_result), no row mask.
\* ~ of that Series raises TypeError, and df[...] of it selects no column.
\* emptyApply leaves open whether the installed library does so.
DropMetaHeaders ==
    /\ App /\ pc = "aligned"
    /\ LET notMeta == NotMetaRows(table)
       IN  \E emptyApply \in BOOLEAN :
          IF emptyApply /\ table = <<>>
          THEN Raise("TypeError") /\ UNCHANGED <<columns, table>>
          ELSE IF emptyApply /\ notMeta = <<>>
          THEN columns' = <<>> /\ table' = <<>> /\ pc' = "filtered" /\ err' = err
          ELSE /\ table' = NotHeaderRows(profile, notMeta)
               /\ pc' = "filtered"
               /\ UNCHANGED <<columns, err>>
    /\ UNCHANGED <<san, profile, doc, rows, header, body>>

Project ==
    /\ App /\ pc = "filtered"
    /\ columns' = ProjectColumns(Expected(profile), columns)
    /\ table' = ProjectTable(Expected(profile), columns, table)
    /\ pc' = "projected"
    /\ UNCHANGED <<san, profile, doc, rows, header, body, err>>

CleanCells ==
    /\ App /\ pc = "projected"
    /\ table' = CleanTable(table)
    /\ pc' = "cleaned"
    /\ UNCHANGED <<san, profile, doc, rows, header, body, columns, err>>

\* dropna(how="all"), the all-blank rows, df.columns cleaned
DropEmpties ==
    /\ App /\ pc = "validated"
    /\ table' = DropEmptyRows(table)
    /\ columns' = Map(clean_cell, columns)
    /\ pc' = "tidy"
    /\ UNCHANGED <<san, profile, doc, rows, header, body, err>>

-----------------------------------------------------------------------------
(* app.py: to_clean_dataframe_emirati *)

\* a column the validations read that is there twice: df[c] is a frame, and
\* .str raises AttributeError
EmValidateRaises(cols) ==
    \E c \in {RowNo, PersonCode, Sex} : Duplicated(cols, c)

EmValidated(cols, t) ==
    LET RowNoOk(r) == HasCol(cols, RowNo) => intlike(r[TheCol(cols, RowNo)])
        CodeOk(r) == HasCol(cols, PersonCode) => PersonCodeOk(r[TheCol(cols, PersonCode)])
        t1 == SelectSeq(SelectSeq(t, RowNoOk), CodeOk)
        t2 == IF HasCol(cols, Sex) THEN SetCol(t1, TheCol(cols, Sex), TitleCell) ELSE t1
        SexIsOk(r) == HasCol(cols, Sex) => SexOk(r[TheCol(cols, Sex)])
    IN  SelectSeq(t2, SexIsOk)

EmValidate ==
    /\ profile = "em" /\ pc = "cleaned"
    /\ IF EmValidateRaises(columns)
       THEN Raise("AttributeError") /\ UNCHANGED table
       ELSE table' = EmValidated(columns, table) /\ pc' = "validated" /\ err' = err
    /\ UNCHANGED <<san, profile, doc, rows, header, body, columns>>

\* "Row No" to Int64, "Person Code" stripped
EmTypedKeys(cols, t) ==
    LET t1 == IF HasCol(cols, RowNo)
              THEN SetCol(SetCol(t, TheCol(cols, RowNo), BlankToNA), TheCol(cols, RowNo), ToInt64)
              ELSE t
    IN  IF HasCol(cols, PersonCode) THEN SetCol(t1, TheCol(cols, PersonCode), StrStrip) ELSE t1

SalaryTexts(cols, t) ==
    IF HasCol(cols, TotalSalary)
    THEN Range(Column(SetCol(t, TheCol(cols, TotalSalary), SalaryText), TheCol(cols, TotalSalary)))
    ELSE {}

EmTyped(cols, t) ==
    IF HasCol(cols, TotalSalary)
    THEN SetCol(SetCol(EmTypedKeys(cols, t), TheCol(cols, TotalSalary), SalaryText),
                TheCol(cols, TotalSalary), ToFloat)
    ELSE EmTypedKeys(cols, t)

\* .astype(float) of the object column: float() of a text that is no number
\* raises ValueError; float(pd.NA) raises TypeError on pandas 2.x, and later
\* releases cast the missing value to NaN (naCast)
EmTypes ==
    /\ profile = "em" /\ pc = "tidy"
    /\ \E naCast \in BOOLEAN :
        IF \E s \in SalaryTexts(columns, table) : s # NA /\ ~ParsesAsFloat(s)
        THEN Raise("ValueError") /\ UNCHANGED table
        ELSE IF NA \in SalaryTexts(columns, table) /\ ~naCast
        THEN Raise("TypeError") /\ UNCHANGED table
        ELSE table' = EmTyped(columns, table) /\ pc' = "done" /\ err' = err
    /\ UNCHANGED <<san, profile, doc, rows, header, body, columns>>

-----------------------------------------------------------------------------
(* app.py: to_clean_dataframe_non_emirati *)

\* df["Person Number"] = ...: a new last column
\* cols.remove("Person Number"); cols.insert(cols.index("Person Name") + 1, ...)
NeNamedLabels(cols) == InsertAt(cols, TheCol(cols, PersonName), PersonNumber)

\* df = df[cols]
NeNamedPositions(cols) == SelectLabels(Append(cols, PersonNumber), NeNamedLabels(cols))

NeNamedColumns(cols) ==
    IF HasCol(cols, PersonName)
    THEN TakeCols(NeNamedPositions(cols), Append(cols, PersonNumber))
    ELSE cols

NeNamedRow(cols, r) ==
    LET j == TheCol(cols, PersonName)
    IN  TakeCols(NeNamedPositions(cols),
                 Append([r EXCEPT ![j] = PersonNameOf(r[j])], PersonNumberOf(r[j])))

NeNamed(cols, t) ==
    IF HasCol(cols, PersonName) THEN [i \in DOMAIN t |-> NeNamedRow(cols, t[i])] ELSE t

NeSplitPersonName ==
    /\ profile = "ne" /\ pc = "cleaned"
    /\ IF Duplicated(columns, PersonName)
       THEN Raise("AttributeError") /\ UNCHANGED <<columns, table>>
       ELSE /\ columns' = NeNamedColumns(columns)
            /\ table' = NeNamed(columns, table)
            /\ pc' = "named" /\ err' = err
    /\ UNCHANGED <<san, profile, doc, rows, header, body>>

NeValidateRaises(cols) ==
    \E c \in {PassportNumber, ContractType, CardNumber} : Duplicated(cols, c)

NeValidated(cols, t) ==
    LET t1 == IF HasCol(cols, PassportNumber)
              THEN SetCol(t, TheCol(cols, PassportNumber), StrStrip) ELSE t
        HasPassport(r) == HasCol(cols, PassportNumber) => r[TheCol(cols, PassportNumber)] # <<>>
        t2 == SelectSeq(t1, HasPassport)
        t3 == IF HasCol(cols, ContractType)
              THEN SetCol(t2, TheCol(cols, ContractType), TitleCell) ELSE t2
        ContractIsOk(r) == HasCol(cols, ContractType) => ContractOk(r[TheCol(cols, ContractType)])
        t4 == SelectSeq(t3, ContractIsOk)
    IN  IF HasCol(cols, CardNumber) THEN SetCol(t4, TheCol(cols, CardNumber), CardNumberOf) ELSE t4

NeValidate ==
    /\ profile = "ne" /\ pc = "named"
    /\ IF NeValidateRaises(columns)
       THEN Raise("AttributeError") /\ UNCHANGED table
       ELSE table' = NeValidated(columns, table) /\ pc' = "validated" /\ err' = err
    /\ UNCHANGED <<san, profile, doc, rows, header, body, columns>>

\* for col in ["Passport Number", "Card Number"]: astype(str).str.strip()
NeFinished(cols, t) ==
    LET t1 == IF HasCol(cols, PassportNumber)
              THEN SetCol(t, TheCol(cols, PassportNumber), StrStrip) ELSE t
    IN  IF HasCol(cols, CardNumber) THEN SetCol(t1, TheCol(cols, CardNumber), StrStrip) ELSE t1

NeFinish ==
    /\ profile = "ne" /\ pc = "tidy"
    /\ table' = NeFinished(columns, table)
    /\ pc' = "done"
    /\ UNCHANGED <<san, profile, doc, rows, header, body, columns, err>>

-----------------------------------------------------------------------------
(* convert.py: main *)

Cli == profile = "cli"

CliProject ==
    /\ Cli /\ pc = "aligned"
    /\ columns' = ProjectColumns(EXPECTED_COLS, columns)
    /\ table' = ProjectTable(EXPECTED_COLS, columns, table)
    /\ pc' = "projected"
    /\ UNCHANGED <<san, profile, doc, rows, header, body, err>>

\* df[df.apply(..., axis=1)]: see DropMetaHeaders for a frame without rows
CliDropHeaderLike ==
    /\ Cli /\ pc = "projected"
    /\ \E emptyApply \in BOOLEAN :
          IF emptyApply /\ table = <<>>
          THEN columns' = <<>> /\ table' = <<>>
          ELSE /\ table' = LET NotHeader(r) == ~is_header_row(r) IN SelectSeq(table, NotHeader)
               /\ UNCHANGED columns
    /\ pc' = "filtered"
    /\ UNCHANGED <<san, profile, doc, rows, header, body, err>>

CliCleanCells ==
    /\ Cli /\ pc = "filtered"
    /\ table' = CleanTable(table)
    /\ pc' = "cleaned"
    /\ UNCHANGED <<san, profile, doc, rows, header, body, columns, err>>

CliDropEmpties ==
    /\ Cli /\ pc = "cleaned"
    /\ table' = DropEmptyRows(table)
    /\ columns' = Map(clean_cell, columns)
    /\ pc' = "tidy"
    /\ UNCHANGED <<san, profile, doc, rows, header, body, err>>

\* df[~df.apply(..., axis=1)]: see DropMetaHeaders for a frame without rows
CliDropMeta ==
    /\ Cli /\ pc = "tidy"
    /\ \E emptyApply \in BOOLEAN :
          IF emptyApply /\ table = <<>>
          THEN Raise("TypeError") /\ UNCHANGED table
          ELSE /\ table' = LET NotMeta(r) == ~cli_is_meta_row(r) IN SelectSeq(table, NotMeta)
               /\ pc' = "metafiltered" /\ err' = err
    /\ UNCHANGED <<san, profile, doc, rows, header, body, columns>>

\* df[c] of a label that is there twice is a frame: the row mask built from it
\* does not fit the frame
CliValidateRaises(cols) ==
    \E c \in {RowNo, PersonCode, Sex} : Duplicated(cols, c)

\* df[df[c].apply(f)] of a frame without rows: Series.apply returns an empty
\* object Series, which is no row mask, and df[...] of it selects no column
CliValidateEmpties(cols, t) ==
    LET RowNoOk(r) == HasCol(cols, RowNo) => intlike(r[TheCol(cols, RowNo)])
    IN  \/ HasCol(cols, RowNo) /\ t = <<>>
        \/ HasCol(cols, PersonCode) /\ SelectSeq(t, RowNoOk) = <<>>

CliValidate ==
    /\ Cli /\ pc = "metafiltered"
    /\ \E emptyApply \in BOOLEAN :
          IF CliValidateRaises(columns)
          THEN Raise("ValueError") /\ UNCHANGED <<columns, table>>
          ELSE IF emptyApply /\ CliValidateEmpties(columns, table)
          THEN columns' = <<>> /\ table' = <<>> /\ pc' = "done" /\ err' = err
          ELSE /\ table' = EmValidated(columns, table)
               /\ pc' = "done"
               /\ UNCHANGED <<columns, err>>
    /\ UNCHANGED <<san, profile, doc, rows, header, body>>

-----------------------------------------------------------------------------
(* Specifications *)

Next ==
    \/ ExtractRows
    \/ SplitHeaderBody
    \/ CoerceHeader
    \/ AlignBody
    \/ DropMetaHeaders
    \/ Project
    \/ CleanCells
    \/ EmValidate
    \/ NeSplitPersonName
    \/ NeValidate
    \/ DropEmpties
    \/ EmTypes
    \/ NeFinish
    \/ CliProject
    \/ CliDropHeaderLike
    \/ CliCleanCells
    \/ CliDropEmpties
    \/ CliDropMeta
    \/ CliValidate

Spec == Init /\ [][Next]_vars

-----------------------------------------------------------------------------
(* SpecHeader: coerce_header of each profile applied to a raw header.  The  *)
(* label at position i is one of two: one that names a canonical column    *)
(* (the name itself, the name in lower case between spaces, an alias), or   *)
(* one that names none (a foreign word, a null cell, a bilingual label).    *)

\* "Ref"
Foreign == <<82, 101, 102>>
\* "Code / " and three Arabic letters
Bilingual == <<67, 111, 100, 101, 32, 47, 32, 1603, 1608, 1583>>

Aliases(p) ==
    CASE p = "em" -> em_aliases
      [] p = "ne" -> ne_aliases
      [] OTHER -> cli_aliases

KnownLabel(p, i) ==
    LET name == Expected(p)[((i - 1) % Len(Expected(p))) + 1]
    IN  CASE i % 3 = 1 -> name
          [] i % 3 = 2 -> <<32>> \o lower(name) \o <<32>>
          [] OTHER -> (CHOOSE e \in Aliases(p) : e[2] = name /\ \A k \in DOMAIN e[1] : e[1][k] < 128)[1]

UnknownLabel(i) ==
    CASE i % 3 = 1 -> Foreign
      [] i % 3 = 2 -> Bilingual
      [] OTHER -> None

RECURSIVE RawHeaders(_, _)
RawHeaders(p, n) ==
    IF n = 0 THEN {<<>>}
    ELSE LET shorter == RawHeaders(p, n - 1)
         IN  shorter \cup {Append(h, l) : h \in {g \in shorter : Len(g) = n - 1},
                                          l \in {KnownLabel(p, n), UnknownLabel(n)}}

InitHeader ==
    /\ san = <<>>
    /\ profile \in Profiles
    /\ pc = "split"
    /\ header \in RawHeaders(profile, MaxHeaderLen)
    /\ doc = <<>> /\ rows = <<>> /\ body = <<>>
    /\ columns = <<>> /\ table = <<>> /\ err = ""

NextHeader == CoerceHeader

SpecHeader == InitHeader /\ [][NextHeader]_vars

-----------------------------------------------------------------------------
(* SpecClean: the sanitizer applied to a value, then to its own result *)

\* e, U+0301, U+00E9, U+200D, U+0628, U+0007, space, A
Alphabet == {101, 769, 233, 8205, 1576, 7, 32, 65}

RECURSIVE TextsUpTo(_)
TextsUpTo(n) ==
    IF n = 0 THEN {<<>>}
    ELSE LET shorter == TextsUpTo(n - 1)
         IN  shorter \cup {Append(t, c) : t \in shorter, c \in Alphabet}

Idle ==
    /\ profile = "none" /\ pc = "idle" /\ doc = <<>> /\ rows = <<>>
    /\ header = <<>> /\ body = <<>> /\ columns = <<>> /\ table = <<>> /\ err = ""

InitClean ==
    /\ \E x \in TextsUpTo(MaxTextLen) \cup {None} : san = <<x>>
    /\ Idle

Sanitize ==
    /\ pc = "idle"
    /\ Len(san) \in 1..2
    /\ san' = Append(san, clean_cell(san[Len(san)]))
    /\ UNCHANGED <<profile, pc, doc, rows, header, body, columns, table, err>>

NextClean == Sanitize

SpecClean == InitClean /\ [][NextClean]_vars

-----------------------------------------------------------------------------
(* Claims *)

Succeeded == pc # "failed"

\* C1: sanitizing a sanitized value changes nothing:
\* clean_cell(clean_cell(x)) = clean_cell(x) for every text x.
C1_Idempotent == Len(san) = 3 => san[3] = san[2]

IsBlankCell(c) == IsNull(c) \/ (IsText(c) /\ strip(c) = <<>>)
IsBlankRow(r) == \A i \in DOMAIN r : IsBlankCell(r[i])

\* C2: in the local-roster pipeline a row that passed the Row No, Person Code
\* and Sex checks and whose Total Salary is empty, null or no decimal number
\* stays in the output with a missing Total Salary: the typing step neither
\* fails the run nor drops the row.
SalaryUnparsable(c) ==
    IsNull(c) \/ strip(replace(c, <<44>>, <<>>)) = <<>>
              \/ ~ParsesAsFloat(strip(replace(c, <<44>>, <<>>)))

C2_SalaryMissingNotFatal ==
    [][(profile = "em" /\ pc = "tidy" /\ HasCol(columns, TotalSalary))
        => /\ pc' = "done"
           /\ Len(table') = Len(table)
           /\ \A i \in DOMAIN table :
                SalaryUnparsable(table[i][TheCol(columns, TotalSalary)])
                    => table'[i][TheCol(columns, TotalSalary)] = NA]_vars

\* C3: no row whose cells are all blank (null, empty or white space) is in the
\* rows the extractor returned, in the body, or in any later table.
C3_NoBlankRow ==
    /\ \A i \in DOMAIN rows : ~IsBlankRow(rows[i])
    /\ \A i \in DOMAIN body : ~IsBlankRow(body[i])
    /\ \A i \in DOMAIN table : ~IsBlankRow(table[i])

\* C4: after the noise filter no row of the table has a cell that contains, in
\* any letter case, one of the non-data phrases: establishment name,
\* establishment number, address, category, scan QR, printing date, total.
ClaimPhrases ==
    {<<101, 115, 116, 97, 98, 108, 105, 115, 104, 109, 101, 110, 116, 32, 110, 97, 109, 101>>,
     <<101, 115, 116, 97, 98, 108, 105, 115, 104, 109, 101, 110, 116, 32, 110, 117, 109, 98, 101, 114>>,
     <<97, 100, 100, 114, 101, 115, 115>>,
     <<99, 97, 116, 101, 103, 111, 114, 121>>,
     <<115, 99, 97, 110, 32, 113, 114>>,
     <<112, 114, 105, 110, 116, 105, 110, 103, 32, 100, 97, 116, 101>>,
     <<116, 111, 116, 97, 108>>}

\* the phrase stands in the cell as a word of its own
CellHasPhrase(c) ==
    /\ IsText(c)
    /\ \E p \in ClaimPhrases, i \in DOMAIN c :
          /\ i = 1 \/ Boundary(c, i)
          /\ StartsWithAt(lower(c), i, p)
          /\ Boundary(c, i + Len(p))

NoiseFiltered ==
    \/ App /\ pc \in {"filtered", "projected", "cleaned", "named", "validated", "tidy", "done"}
    \/ Cli /\ pc \in {"metafiltered", "done"}

C4_MetaRowsDropped ==
    NoiseFiltered => \A i \in DOMAIN table : \A j \in DOMAIN table[i] : ~CellHasPhrase(table[i][j])

\* C5: coerce_header returns the canonical list for an empty raw header and for
\* a raw header as long as the canonical list of whose resolved labels fewer
\* than 5 are canonical; in every other case it returns one resolved label per
\* raw label, in the raw order.
ClaimResolved(p, c) ==
    CASE p = "em" -> em_resolve(c)
      [] p = "ne" -> ne_resolve(c)
      [] OTHER -> cli_resolve(c)

ClaimedHeader(p, h) ==
    LET res == [i \in DOMAIN h |-> ClaimResolved(p, h[i])]
        hits == {i \in DOMAIN h : \E k \in DOMAIN Expected(p) : res[i] = Expected(p)[k]}
    IN  IF h = <<>> \/ (Len(h) = Len(Expected(p)) /\ Cardinality(hits) < 5)
        THEN Expected(p)
        ELSE res

C5_CoerceHeader ==
    pc \in {"coerced", "failed"}
        => pc = "coerced" /\ columns = ClaimedHeader(profile, header)

\* C6: after the alignment every row has as many cells as the header; a short
\* row is padded on the right with empty strings, a long row is cut on the
\* right, and the cells kept are the row's leading cells in their order.
C6_Aligned ==
    /\ (Succeeded /\ pc \notin {"start", "extracted", "split", "coerced"})
          => \A i \in DOMAIN table : Len(table[i]) = Len(columns)
    /\ pc = "aligned"
          => /\ Len(table) = Len(body)
             /\ \A i \in DOMAIN table : \A j \in 1..Len(columns) :
                    table[i][j] = IF j <= Len(body[i]) THEN body[i][j] ELSE <<>>

C6_Witness ==
    /\ pc = "aligned"
    /\ \E i \in DOMAIN body : Len(body[i]) > Len(columns)

\* C7: every row of the local-roster Clean Table meets the rules of the
\* columns that are there: Row No is digits only (an integer once typed),
\* Person Code is digits only and at least 10 long, Sex is Male or Female.
DigitsOnly(c) == IsText(c) /\ Len(c) > 0 /\ \A k \in DOMAIN c : c[k] \in 48..57

RowMeetsRules(cols, r) ==
    /\ \A j \in ColIdx(cols, RowNo) :
          DigitsOnly(r[j]) \/ (Len(r[j]) = 2 /\ r[j][1] = -3 /\ r[j][2] >= 0)
    /\ \A j \in ColIdx(cols, PersonCode) : DigitsOnly(r[j]) /\ Len(r[j]) >= 10
    /\ \A j \in ColIdx(cols, Sex) : r[j] = W_Male \/ r[j] = W_Female

C7_RowsValid ==
    (\/ profile = "em" /\ pc \in {"validated", "tidy", "done"}
     \/ profile = "cli" /\ pc = "done")
        => \A i \in DOMAIN table : RowMeetsRules(columns, table[i])

\* " male " with a 10-digit Person Code is kept, as "Male"
C7_Witness ==
    /\ profile = "em" /\ pc = "done"
    /\ doc = <<EmHeader, EmGood>>
    /\ Len(table) = 1
    /\ table[1][3] = W_Male
    /\ table[1][2] = EmGood[2]

\* C8: the column names of a Clean Table that has rows are unique.
C8_UniqueColumns ==
    (pc = "done" /\ table # <<>>)
        => \A i, j \in DOMAIN columns : i # j => columns[i] # columns[j]

\* C9 (as claimed): an output table that has rows has only canonical columns
\* of the profile (and Person Number in the all-employees profile), also when
\* no reconciled name is canonical.
CanonicalOrDerived(p, c) ==
    \/ \E k \in DOMAIN Expected(p) : c = Expected(p)[k]
    \/ p = "ne" /\ c = PersonNumber

AfterProjection == pc \in {"projected", "done"}

\* twice the place in the canonical list; Person Number stands after Person Name
Rank(p, c) ==
    IF c = PersonNumber /\ p = "ne"
    THEN 2 * (CHOOSE k \in DOMAIN Expected(p) : Expected(p)[k] = PersonName) + 1
    ELSE 2 * (CHOOSE k \in DOMAIN Expected(p) : Expected(p)[k] = c)

DigitRunAtEnd(s, k) ==
    /\ k \in 0..Len(s)
    /\ \A m \in (Len(s) - k + 1)..Len(s) : s[m] \in 48..57
    /\ k < Len(s) => s[Len(s) - k] \notin 48..57

C10_PersonNameSplit ==
    [][/\ (profile = "ne" /\ pc = "cleaned" /\ pc' = "named" /\ HasCol(columns, PersonName))
            => LET j == TheCol(columns, PersonName)
               IN  /\ columns'[j] = PersonName
                   /\ columns'[j + 1] = PersonNumber
                   /\ Len(table') = Len(table)
                   /\ \A i \in DOMAIN table :
                        LET c == table[i][j]
                            k == CHOOSE n \in 0..Len(c) : DigitRunAtEnd(rstrip(c), n)
                        IN  IF ~IsText(c)
                            THEN table'[i][j + 1] = <<>>
                            ELSE IF k >= 8
                            THEN /\ table'[i][j + 1] = SubSeq(rstrip(c), Len(rstrip(c)) - k + 1, Len(rstrip(c)))
                                 /\ table'[i][j] = strip(SubSeq(c, 1, Len(rstrip(c)) - k))
                            ELSE /\ table'[i][j + 1] = <<>>
                                 /\ table'[i][j] = strip(c)
       /\ (profile = "ne" /\ pc' = "done" /\ HasCol(columns', PersonName))
            => \A j \in ColIdx(columns', PersonName) :
                  j < Len(columns') /\ columns'[j + 1] = PersonNumber]_vars

\* "John Smith12345678" was split into "John Smith" and "12345678", and a name
\* without the digits got an empty Person Number
C10_Witness ==
    /\ profile = "ne" /\ pc = "named"
    /\ \E i \in DOMAIN table :
          /\ table[i][2] = <<74, 111, 104, 110, 32, 83, 109, 105, 116, 104>>
          /\ table[i][3] = <<49, 50, 51, 52, 53, 54, 55, 56>>

\* C11: in the all-employees pipeline the passport check drops every row whose
\* Passport Number cell is null or empty after trimming: the rows it leaves
\* are no more than the rows that have a passport number, and each of them
\* has one.
PassportBlank(c) == IsNull(c) \/ strip(c) = <<>>

C11_PassportRequired ==
    [][(profile = "ne" /\ pc = "named" /\ pc' = "validated" /\ HasCol(columns, PassportNumber))
        => LET j == TheCol(columns, PassportNumber)
           IN  /\ \A i \in DOMAIN table' : ~PassportBlank(table'[i][j])
               /\ Len(table') <= Cardinality({i \in DOMAIN table : ~PassportBlank(table[i][j])})]_vars

\* C12: the header is the first row of the extracted rows that is_header_row
\* holds of; the body is the other rows with a non-blank cell that
\* is_header_row does not hold of, in the order of the extraction; and
\* is_header_row holds of no row of the body, of the table after the noise
\* filter, or of the final table.
HeaderLike(r) == IsHeaderRow(profile, r)

NotHeaderLike(r) == ~HeaderLike(r)

HeaderPlaces == {i \in DOMAIN rows : HeaderLike(rows[i])}

InBody(r) == \E i \in DOMAIN body : body[i] = r

C12_SplitDone == pc \notin {"start", "extracted"}

\* right after the filters of header-like and noise rows, and at the end
C12_Filtered == pc \in {"filtered", "metafiltered", "done"}

C12_HeaderRows ==
    /\ C12_SplitDone =>
          /\ header = IF HeaderPlaces = {} THEN <<>>
                      ELSE rows[CHOOSE i \in HeaderPlaces : \A j \in HeaderPlaces : i <= j]
          /\ \A i \in DOMAIN body : NotHeaderLike(body[i])
          /\ body = SelectSeq(rows, InBody)
          /\ \A i \in DOMAIN rows :
                (NotHeaderLike(rows[i]) /\ ~IsBlankRow(rows[i])) => InBody(rows[i])
    /\ C12_Filtered => \A i \in DOMAIN table : NotHeaderLike(table[i])

=============================================================================
